---------------------------- MODULE Spec2Model ----------------------------
(***************************************************************************)
(* A model of the annotation-conversion pipelines of the repository:       *)
(*   seg  : training/prepare_and_train_segmentation.py                     *)
(*          extract_and_combine_coco followed by convert_to_yolov8_seg     *)
(*   obb  : scripts/convert_labelstudio_to_yolo_obb.py (main)              *)
(*   coco : training/convert_coco_to_yolov8seg.py                          *)
(* File names are sequences of one-character strings, so that formatting,  *)
(* Path.name / Path.stem / Path.suffix are computed as the code computes   *)
(* them.  Coordinates are exact rationals <<numerator, denominator>>.      *)
(***************************************************************************)
EXTENDS Integers, Sequences, FiniteSets, TLC

(***************************************************************************)
(* Bounds of the model.                                                    *)
(***************************************************************************)
MaxProjects == 2
MaxRecs == 4
MaxExports == 2
MaxItems == 3
MaxSegCorpus == 11
MaxObbCorpus == 6
MaxScan == 2
MaxRerun == 2
MaxGrid == 2
MaxCocoCorpus == 11
MaxVertices == 4

(***************************************************************************)
(* Generic helpers.                                                        *)
(***************************************************************************)
Range(s) == {s[i] : i \in 1..Len(s)}

Min(a, b) == IF a <= b THEN a ELSE b

Max(a, b) == IF a >= b THEN a ELSE b

Abs(a) == IF a < 0 THEN -a ELSE a

RECURSIVE Gcd(_, _)
Gcd(a, b) == IF b = 0 THEN a ELSE Gcd(b, a % b)

\* The rational n/d (d > 0) in lowest terms.
Ratio(n, d) ==
  LET g == Gcd(Abs(n), d)
  IN  <<n \div g, d \div g>>

RatLeq(p, q) == p[1] * q[2] <= q[1] * p[2]

Zero == <<0, 1>>

One == <<1, 1>>

InUnit(c) == RatLeq(Zero, c) /\ RatLeq(c, One)

\* max(0.0, min(1.0, x))
Clamp(c) == IF RatLeq(c, Zero) THEN Zero ELSE IF RatLeq(One, c) THEN One ELSE c

(***************************************************************************)
(* Strings and paths.                                                      *)
(***************************************************************************)
Digit(n) == <<"0", "1", "2", "3", "4", "5", "6", "7", "8", "9">>[n + 1]

RECURSIVE Digits(_)
Digits(n) == IF n < 10 THEN <<Digit(n)>> ELSE Digits(n \div 10) \o <<Digit(n % 10)>>

\* format(n, "0<w>d")
RECURSIVE ZeroPad(_, _)
ZeroPad(s, w) == IF Len(s) >= w THEN s ELSE ZeroPad(<<"0">> \o s, w)

\* The largest index of character c in s, 0 when absent.
RECURSIVE LastIndex(_, _, _)
LastIndex(s, c, i) ==
  IF i = 0 THEN 0 ELSE IF s[i] = c THEN i ELSE LastIndex(s, c, i - 1)

\* Path(p).name
PathName(p) == SubSeq(p, LastIndex(p, "/", Len(p)) + 1, Len(p))

\* Path(p).suffix: from the last dot of the name, unless the name starts or
\* ends with it.
PathSuffix(p) ==
  LET n == PathName(p)
      k == LastIndex(n, ".", Len(n))
  IN  IF k > 1 /\ k < Len(n) THEN SubSeq(n, k, Len(n)) ELSE <<>>

\* Path(p).stem
PathStem(p) ==
  LET n == PathName(p)
  IN  SubSeq(n, 1, Len(n) - Len(PathSuffix(p)))

DotJpg == <<".", "j", "p", "g">>

DotTxt == <<".", "t", "x", "t">>

DotPng == <<".", "p", "n", "g">>

AJpg == <<"a">> \o DotJpg

APng == <<"a">> \o DotPng

BJpg == <<"b">> \o DotJpg

ImagesAJpg == <<"i", "m", "a", "g", "e", "s", "/">> \o AJpg

Proj == <<"p", "r", "o", "j">>

VARIABLES
  pipeline,            \* which script runs: "seg", "obb" or "coco"
  pc,                  \* the position of the script
  zip_idx,             \* seg: enumerate(sorted(zip_files), 1)
  extracted,           \* seg: the files of TEMP_DIR/project_<k>/images, per archive
  image_id_map,        \* seg: old id -> new id, of the current project
  combined_images,     \* seg: combined_coco['images']
  combined_annotations,\* seg: combined_coco['annotations']
  next_image_id,
  next_annotation_id,
  total_images_copied,
  annotations_added,
  img_origin,          \* history: per merged image, its project and the file it resolved to
  unresolved,          \* history: old ids of the current project whose file was not found
  last_in,             \* history: the record read by the last step, and what became of it
  n_recs,              \* number of image and annotation records read so far (bounded)
  image_ids,           \* seg: the shuffled identifier list
  conv_i,              \* seg: position of the conversion loop in image_lookup
  converted_count,
  skipped_count,
  train_ids,           \* the train subset of the split
  valid_ids,           \* the validation subset of the split
  out_images,          \* output tree: <<directory, file name>> -> the file copied there
  out_labels,          \* output tree: <<directory, file name>> -> the label lines written
  manifest,            \* whether data.yaml has been written
  json_idx,            \* obb: number of export files taken from json_files
  tree,                \* obb: the extracted directory of the current export file
  images_processed,    \* obb: convert_labelstudio_to_yolo_obb's counter
  total_annotations,   \* obb: convert_labelstudio_to_yolo_obb's counter
  total_images,        \* obb: main's sum of images
  total_annots,        \* obb: main's sum of annotations
  accepted,            \* history: <<export, output image name>> of every accepted image
  n_items,             \* number of export items read so far (bounded)
  categories,          \* coco: coco_data['categories'], the category ids in file order
  input_exists,        \* whether the input directory of the script exists
  work_dir,            \* seg: TEMP_DIR, obb: OUTPUT_DIR/raw_extracted
  out_dir,             \* seg: DATASET_OUTPUT, obb: OUTPUT_DIR
  scanned,             \* obb: the JSON files rglob has yielded so far
  json_files,          \* obb: find_labelstudio_json's list
  run,                 \* the number of the run of the script: 1 or 2
  inputs,              \* history: what the first run read, in order
  first_out            \* history: the output tree the first run left

mergeVars == <<zip_idx, extracted, image_id_map, combined_images, combined_annotations,
               next_image_id, next_annotation_id, total_images_copied,
               annotations_added, img_origin, unresolved, last_in, n_recs>>

convVars == <<image_ids, conv_i, converted_count, skipped_count>>

outVars == <<train_ids, valid_ids, out_images, out_labels, manifest>>

obbVars == <<json_idx, tree, images_processed, total_annotations, total_images,
             total_annots, accepted, n_items>>

cocoVars == <<categories>>

envVars == <<input_exists, work_dir, out_dir>>

scanVars == <<scanned, json_files>>

rerunVars == <<run, inputs, first_out>>

vars == <<pipeline, pc, mergeVars, convVars, outVars, obbVars, cocoVars, envVars,
          scanVars, rerunVars>>

(***************************************************************************)
(* seg: extract_and_combine_coco                                           *)
(***************************************************************************)
\* The image file names an archive may hold in its images/ folder.
SegDisks == {{AJpg}, {AJpg, BJpg}}

\* An archive: one that zipfile cannot open (corrupt), or as extracted: with
\* or without result.json, with or without an images/ folder, and the files
\* of that folder.
Archives ==
  {[corrupt |-> FALSE, has_result |-> TRUE, has_images_dir |-> TRUE, disk |-> k] :
     k \in SegDisks}
    \cup {[corrupt |-> FALSE, has_result |-> FALSE, has_images_dir |-> TRUE,
           disk |-> {AJpg}],
          [corrupt |-> FALSE, has_result |-> TRUE, has_images_dir |-> FALSE,
           disk |-> {}],
          [corrupt |-> TRUE, has_result |-> FALSE, has_images_dir |-> FALSE,
           disk |-> {}]}

\* file_name values of the image records of a result.json.
SegRefs == {ImagesAJpg, APng, BJpg}

SrcIds == {1, 2}

Widths == {4}

Heights == {2}

\* 'segmentation' values of annotation records: a list of flattened polygons.
\* (on a 4 x 2 image SegPoly has points left of, right of and below the image)
SegPoly == << <<-1, 0, 5, 1, 2, 3>> >>

SegEmpty == << >>

\* A polygon of two points.
SegShort == << <<1, 1, 2, 1>> >>

Segs == {SegPoly, SegEmpty, SegShort}

SegExts == << <<"j", "p", "g">>, <<"j", "p", "e", "g">>, <<"p", "n", "g">>,
              <<"J", "P", "G">>, <<"J", "P", "E", "G">>, <<"P", "N", "G">> >>

\* Lines 141-151: the file of images_dir that an image record resolves to,
\* <<>> when none (actual_file = None).
RECURSIVE FindActualFile(_, _, _)
FindActualFile(disk, original_filename, i) ==
  IF i > Len(SegExts) THEN <<>>
  ELSE IF original_filename \in disk THEN original_filename
  ELSE IF PathStem(original_filename) \o <<".">> \o SegExts[i] \in disk
       THEN PathStem(original_filename) \o <<".">> \o SegExts[i]
  ELSE FindActualFile(disk, original_filename, i + 1)

\* Line 134: new_id = next_image_id; the source identifier is not used.
NewImageIdFromSource(old_id, counter) == old_id

NewImageId(old_id, counter) == counter

NewFilenameNoIndex(idx, actual_name) == Proj \o <<"_">> \o actual_name

\* Line 155: f"proj{zip_idx:02d}_{actual_file.name}"
NewFilename(idx, actual_name) ==
  Proj \o ZeroPad(Digits(idx), 2) \o <<"_">> \o actual_name

NoInput == [kind |-> "none"]

\* image_id_map[old_id] = new_id
MapPut(m, k, v) == [x \in (DOMAIN m) \cup {k} |-> IF x = k THEN v ELSE m[x]]

InitSeg ==
  /\ zip_idx = 0
  /\ extracted = <<>>
  /\ image_id_map = <<>>
  /\ combined_images = <<>>
  /\ combined_annotations = <<>>
  /\ next_image_id = 0
  /\ next_annotation_id = 0
  /\ total_images_copied = 0
  /\ annotations_added = 0
  /\ img_origin = <<>>
  /\ unresolved = {}
  /\ last_in = NoInput
  /\ n_recs = 0
  /\ image_ids = <<>>
  /\ conv_i = 0
  /\ converted_count = 0
  /\ skipped_count = 0

InitOut ==
  /\ train_ids = {}
  /\ valid_ids = {}
  /\ out_images = <<>>
  /\ out_labels = <<>>
  /\ manifest = FALSE

\* The directories as a run finds them: the working and output directories
\* are left over from an earlier run; the input directory may be missing.
InitEnv ==
  /\ input_exists \in BOOLEAN
  /\ work_dir = "old"
  /\ out_dir = "old"
  /\ scanned = <<>>
  /\ json_files = <<>>
  /\ run = 1
  /\ inputs = <<>>
  /\ first_out = <<>>

\* Lines 85-92: TEMP_DIR is removed and made again, then the archives of
\* DATASET_SOURCE are listed (none when the directory is missing).
SegStart ==
  /\ pipeline = "seg"
  /\ pc = "start"
  /\ work_dir' = "fresh"
  /\ extracted' = <<>>
  /\ pc' = "merge"
  /\ UNCHANGED <<pipeline, zip_idx, image_id_map, combined_images,
                 combined_annotations, next_image_id, next_annotation_id,
                 total_images_copied, annotations_added, img_origin, unresolved,
                 last_in, n_recs, convVars, outVars, obbVars, cocoVars,
                 input_exists, out_dir, scanVars, rerunVars>>

\* The image loop entered for every archive that has a result.json.
ProjectOutcomeNoDirCheck(a) ==
  IF a.corrupt THEN "bad_zip" ELSE IF a.has_result THEN "images" ELSE "merge"

\* Lines 110-130: where the loop goes for archive a: the exception of
\* zipfile, the image loop, or (continue) the next archive.
ProjectOutcome(a) ==
  IF a.corrupt THEN "bad_zip"
  ELSE IF a.has_result /\ a.has_images_dir THEN "images" ELSE "merge"

\* Lines 106-130: the next archive is extracted; without result.json or
\* without images/ the project is skipped.  zipfile.ZipFile raises on a
\* corrupt archive and nothing in the loop catches it.
StartProject ==
  /\ pipeline = "seg"
  /\ pc \in {"merge", "annotations"}
  /\ input_exists
  /\ zip_idx < MaxProjects
  /\ \E a \in Archives :
       /\ zip_idx' = zip_idx + 1
       /\ extracted' = IF a.corrupt THEN extracted ELSE Append(extracted, a.disk)
       /\ pc' = ProjectOutcome(a)
       /\ image_id_map' = IF a.has_result THEN <<>> ELSE image_id_map
       /\ last_in' = [kind |-> "project", corrupt |-> a.corrupt,
                      has_result |-> a.has_result,
                      has_images_dir |-> a.has_images_dir]
  /\ unresolved' = {}
  /\ UNCHANGED <<pipeline, combined_images, combined_annotations, next_image_id,
                 next_annotation_id, total_images_copied, annotations_added,
                 img_origin, n_recs, convVars, outVars, obbVars, cocoVars,
                 envVars, scanVars, rerunVars>>

\* Lines 132-167: one image record of coco_data['images'].
AddImage ==
  /\ pipeline = "seg"
  /\ pc = "images"
  /\ n_recs < MaxRecs
  /\ \E old_id \in SrcIds, ref \in SegRefs, w \in Widths, h \in Heights :
       LET new_id == NewImageId(old_id, next_image_id)
           original_filename == PathName(ref)
           actual_file == FindActualFile(extracted[zip_idx], original_filename, 1)
       IN  /\ image_id_map' = MapPut(image_id_map, old_id, new_id)
           /\ IF actual_file # <<>>
              THEN /\ combined_images' = Append(combined_images,
                        [id |-> new_id,
                         file_name |-> NewFilename(zip_idx, PathName(actual_file)),
                         width |-> w, height |-> h])
                   /\ img_origin' = Append(img_origin,
                        [project |-> zip_idx, name |-> PathName(actual_file)])
                   /\ next_image_id' = next_image_id + 1
                   /\ total_images_copied' = total_images_copied + 1
                   /\ unresolved' = unresolved \ {old_id}
              ELSE /\ unresolved' = unresolved \cup {old_id}
                   /\ UNCHANGED <<combined_images, img_origin, next_image_id,
                                  total_images_copied>>
           /\ last_in' = [kind |-> "image", old_id |-> old_id,
                          added |-> actual_file # <<>>]
  /\ n_recs' = n_recs + 1
  /\ UNCHANGED <<pipeline, pc, zip_idx, extracted, combined_annotations,
                 next_annotation_id, annotations_added, convVars, outVars, obbVars,
                 cocoVars, envVars, scanVars, rerunVars>>

\* Line 170: the image loop is over, annotations_added = 0.
BeginAnnotations ==
  /\ pipeline = "seg"
  /\ pc = "images"
  /\ pc' = "annotations"
  /\ annotations_added' = 0
  /\ last_in' = NoInput
  /\ UNCHANGED <<pipeline, zip_idx, extracted, image_id_map, combined_images,
                 combined_annotations, next_image_id, next_annotation_id,
                 total_images_copied, img_origin, unresolved, n_recs, convVars,
                 outVars, obbVars, cocoVars, envVars, scanVars, rerunVars>>

\* Lines 171-190: one annotation record of coco_data['annotations'].
AddAnnotation ==
  /\ pipeline = "seg"
  /\ pc = "annotations"
  /\ n_recs < MaxRecs
  /\ \E image_id \in SrcIds, seg \in Segs :
       LET skip == image_id \notin DOMAIN image_id_map \/ seg = << >>
       IN  /\ last_in' = [kind |-> "annotation", image_id |-> image_id,
                          added |-> ~skip]
           /\ IF skip
              THEN UNCHANGED <<combined_annotations, next_annotation_id,
                               annotations_added>>
              ELSE /\ combined_annotations' = Append(combined_annotations,
                        [id |-> next_annotation_id,
                         image_id |-> image_id_map[image_id],
                         category_id |-> 0,
                         segmentation |-> seg])
                   /\ next_annotation_id' = next_annotation_id + 1
                   /\ annotations_added' = annotations_added + 1
  /\ n_recs' = n_recs + 1
  /\ UNCHANGED <<pipeline, pc, zip_idx, extracted, image_id_map, combined_images,
                 next_image_id, total_images_copied, img_origin, unresolved,
                 convVars, outVars, obbVars, cocoVars, envVars, scanVars,
                 rerunVars>>

(***************************************************************************)
(* The seeded generators.  random.seed(42) and np.random.seed(42) start    *)
(* the Mersenne Twister from a fixed state; the tables hold the first 40   *)
(* outputs of each stream, cut to the eight bits the draws below read.     *)
(***************************************************************************)
\* random.seed(42): genrand_uint32() >> 24
PyStream ==
  <<163, 28, 6, 189, 70, 62, 57, 35, 188, 26, 173, 189, 228, 139, 22, 151, 108, 8,
    7, 23, 55, 59, 129, 154, 6, 143, 50, 183, 166, 179, 139, 107, 56, 114, 150, 71,
    207, 222, 1, 194>>

RECURSIVE BitLength(_)
BitLength(n) == IF n = 0 THEN 0 ELSE 1 + BitLength(n \div 2)

\* Random._randbelow_with_getrandbits(n), reading the stream at pos:
\* <<the draw, the next position>>.
RECURSIVE RandBelow(_, _)
RandBelow(n, pos) ==
  LET r == PyStream[pos] \div (2 ^ (8 - BitLength(n)))
  IN  IF r < n THEN <<r, pos + 1>> ELSE RandBelow(n, pos + 1)

Swap(x, i, j) == [x EXCEPT ![i] = x[j], ![j] = x[i]]

\* random.shuffle: for i in reversed(range(1, len(x))): j = randbelow(i + 1);
\* x[i], x[j] = x[j], x[i]   (i is the 0-based index)
RECURSIVE PyShuffleFrom(_, _, _)
PyShuffleFrom(x, i, pos) ==
  IF i < 1 THEN x
  ELSE LET d == RandBelow(i + 1, pos)
       IN  PyShuffleFrom(Swap(x, i + 1, d[1] + 1), i - 1, d[2])

PyShuffle(x) == PyShuffleFrom(x, Len(x) - 1, 1)

(***************************************************************************)
(* seg: convert_to_yolov8_seg                                              *)
(***************************************************************************)
\* Whether a occurs in b as a substring (Python: a in b).
IsSubstr(a, b) ==
  \E i \in 0..(Len(b) - Len(a)) : SubSeq(b, i + 1, i + Len(a)) = a

\* s.replace(old, "")
RECURSIVE RemoveAll(_, _)
RemoveAll(s, old) ==
  IF Len(s) < Len(old) THEN s
  ELSE IF SubSeq(s, 1, Len(old)) = old
       THEN RemoveAll(SubSeq(s, Len(old) + 1, Len(s)), old)
       ELSE <<s[1]>> \o RemoveAll(Tail(s), old)

\* Lines 249-258 for one project_dir: the source files the search of that
\* directory can end on, as <<project, file name>>.
SrcInProject(filename, k) ==
  LET potential_src == RemoveAll(filename, Proj \o Digits(k) \o <<"_">>)
  IN  IF potential_src \in extracted[k]
      THEN {<<k, potential_src>>}
      ELSE {<<k, f>> : f \in {g \in extracted[k] : IsSubstr(g, filename)}}

\* Lines 249-260: TEMP_DIR.glob and images.glob enumerate in an order the
\* platform chooses; the first directory with a match decides.
SrcCandidates(filename) ==
  UNION {SrcInProject(filename, k) : k \in 1..Len(extracted)}

SegTrainTenths == 9

SegSplitIdxRounded(n) == (n * SegTrainTenths + 5) \div 10

\* Line 232: int(len(image_ids) * 0.9)
SegSplitIdx(n) == (n * SegTrainTenths) \div 10

\* Lines 286-292: the normalized, clamped coordinates of one flattened polygon.
RECURSIVE SegCoords(_, _, _, _)
SegCoords(segmentation, i, w, h) ==
  IF i > Len(segmentation) THEN <<>>
  ELSE <<Clamp(Ratio(segmentation[i], w)), Clamp(Ratio(segmentation[i + 1], h))>>
         \o SegCoords(segmentation, i + 2, w, h)

\* Lines 279-296: the label lines of image img.
RECURSIVE SegLabelLines(_, _)
SegLabelLines(img, k) ==
  IF k > Len(combined_annotations) THEN <<>>
  ELSE LET ann == combined_annotations[k]
       IN  (IF ann.image_id = img.id
            THEN << [class |-> 0,
                     coords |-> SegCoords(ann.segmentation[1], 1, img.width, img.height)] >>
            ELSE <<>>) \o SegLabelLines(img, k + 1)

\* Lines 194-199: the merge loop is over; the summary divides by the number
\* of merged images, and the function returns combined_coco (its locals end).
FinishMerge ==
  /\ pipeline = "seg"
  /\ pc \in {"merge", "annotations"}
  /\ pc' = IF Len(combined_images) = 0 THEN "failed" ELSE "merged"
  /\ zip_idx' = 0
  /\ image_id_map' = <<>>
  /\ next_image_id' = 0
  /\ next_annotation_id' = 0
  /\ total_images_copied' = 0
  /\ annotations_added' = 0
  /\ unresolved' = {}
  /\ last_in' = NoInput
  /\ n_recs' = 0
  /\ UNCHANGED <<pipeline, extracted, combined_images, combined_annotations,
                 img_origin, convVars, outVars, obbVars, cocoVars,
                 envVars, scanVars, rerunVars>>

\* Lines 207-239: the output tree is recreated and the identifiers are split.
BeginConvert ==
  /\ pipeline = "seg"
  /\ pc = "merged"
  /\ LET ids == PyShuffle([i \in 1..Len(combined_images) |-> combined_images[i].id])
         split_idx == SegSplitIdx(Len(ids))
     IN  /\ image_ids' = ids
         /\ train_ids' = Range(SubSeq(ids, 1, split_idx))
         /\ valid_ids' = Range(SubSeq(ids, split_idx + 1, Len(ids)))
  /\ out_images' = <<>>
  /\ out_labels' = <<>>
  /\ manifest' = FALSE
  /\ conv_i' = 1
  /\ converted_count' = 0
  /\ skipped_count' = 0
  /\ pc' = "convert"
  /\ out_dir' = "fresh"
  /\ UNCHANGED <<pipeline, mergeVars, obbVars, cocoVars, input_exists, work_dir,
                 scanVars, rerunVars>>

\* Lines 241-300: one image of image_lookup.
ConvertImage ==
  /\ pipeline = "seg"
  /\ pc = "convert"
  /\ conv_i <= Len(combined_images)
  /\ LET img == combined_images[conv_i]
         split == IF img.id \in train_ids THEN "train" ELSE "valid"
         filename == img.file_name
     IN  IF SrcCandidates(filename) = {}
         THEN /\ skipped_count' = skipped_count + 1
              /\ UNCHANGED <<converted_count, out_images, out_labels>>
         ELSE \E src_img \in SrcCandidates(filename) :
                /\ out_images' = MapPut(out_images, <<split, filename>>, src_img)
                /\ out_labels' = MapPut(out_labels,
                                        <<split, PathStem(filename) \o DotTxt>>,
                                        SegLabelLines(img, 1))
                /\ converted_count' = converted_count + 1
                /\ UNCHANGED skipped_count
  /\ conv_i' = conv_i + 1
  /\ UNCHANGED <<pipeline, pc, mergeVars, image_ids, train_ids, valid_ids, manifest,
                 obbVars, cocoVars, envVars, scanVars, rerunVars>>

\* Lines 302-320: data.yaml is written and TEMP_DIR removed.
FinishConvert ==
  /\ pipeline = "seg"
  /\ pc = "convert"
  /\ conv_i > Len(combined_images)
  /\ manifest' = TRUE
  /\ extracted' = <<>>
  /\ work_dir' = "removed"
  /\ pc' = "done"
  /\ UNCHANGED <<pipeline, zip_idx, image_id_map, combined_images,
                 combined_annotations, next_image_id, next_annotation_id,
                 total_images_copied, annotations_added, img_origin, unresolved,
                 last_in, n_recs, convVars, train_ids, valid_ids, out_images, out_labels,
                 obbVars, cocoVars, input_exists, out_dir, scanVars, rerunVars>>

(***************************************************************************)
(* obb: polygon_to_obb.  Points are Label Studio percentages; the pixel    *)
(* points are kept as exact multiples of a common unit, the rectangle is   *)
(* the minimum-area rectangle over the directions of the convex hull's     *)
(* edges (what cv2.minAreaRect computes by rotating calipers), in exact    *)
(* rational arithmetic.  Where several directions give the minimum area,   *)
(* every minimal rectangle is a possible result.                           *)
(***************************************************************************)
RECURSIVE GcdAll(_, _)
GcdAll(xs, i) == IF i > Len(xs) THEN 0 ELSE Gcd(Abs(xs[i]), GcdAll(xs, i + 1))

MinOf(S) == CHOOSE x \in S : \A y \in S : x <= y

MaxOf(S) == CHOOSE x \in S : \A y \in S : x >= y

Cross(o, a, b) == (a[1] - o[1]) * (b[2] - o[2]) - (a[2] - o[2]) * (b[1] - o[1])

\* The directions of the hull's edges: q - p for points p # q with no point
\* to the right of the line from p to q.
HullDirs(P) ==
  {<<q[1] - p[1], q[2] - p[2]>> :
     <<p, q>> \in {e \in P \X P : e[1] # e[2] /\ \A r \in P : Cross(e[1], e[2], r) >= 0}}

\* A rectangle along d through the lowest point only, of no thickness.
RectAlongFlat(P, d) ==
  LET S == {p[1] * d[1] + p[2] * d[2] : p \in P}
      T == {p[2] * d[1] - p[1] * d[2] : p \in P}
  IN  [d |-> d, L |-> d[1] * d[1] + d[2] * d[2],
       smin |-> MinOf(S), smax |-> MaxOf(S), tmin |-> MinOf(T), tmax |-> MinOf(T),
       A |-> (MaxOf(S) - MinOf(S)) * (MaxOf(T) - MinOf(T))]

\* The bounding rectangle of P with a side along d: its area's numerator
\* over d.d, and the projections' extremes.
RectAlong(P, d) ==
  LET S == {p[1] * d[1] + p[2] * d[2] : p \in P}
      T == {p[2] * d[1] - p[1] * d[2] : p \in P}
  IN  [d |-> d, L |-> d[1] * d[1] + d[2] * d[2],
       smin |-> MinOf(S), smax |-> MaxOf(S), tmin |-> MinOf(T), tmax |-> MaxOf(T),
       A |-> (MaxOf(S) - MinOf(S)) * (MaxOf(T) - MinOf(T))]

\* The corner with projections s and t, normalized: lines 99-103.  unit is
\* the pixel length of one step of P times 100.
Corner(r, s, t, unit, img_width, img_height) ==
  <<Ratio((s * r.d[1] - t * r.d[2]) * unit, r.L * 100 * img_width),
    Ratio((s * r.d[2] + t * r.d[1]) * unit, r.L * 100 * img_height)>>

BoxPoints(r, unit, w, h) ==
  Corner(r, r.smin, r.tmin, unit, w, h) \o Corner(r, r.smax, r.tmin, unit, w, h)
    \o Corner(r, r.smax, r.tmax, unit, w, h) \o Corner(r, r.smin, r.tmax, unit, w, h)

\* Lines 87-105: the results polygon_to_obb can return for points (a
\* sequence of <<x%, y%>>): 8 normalized coordinates each.
PolygonToObb(points, img_width, img_height) ==
  LET flat == [i \in 1..(2 * Len(points)) |->
                 IF i % 2 = 1 THEN points[(i + 1) \div 2][1] * img_width
                              ELSE points[i \div 2][2] * img_height]
      g == GcdAll(flat, 1)
      unit == IF g = 0 THEN 1 ELSE g
      P == {<<(points[i][1] * img_width) \div unit,
              (points[i][2] * img_height) \div unit>> : i \in 1..Len(points)}
      rects == {RectAlong(P, d) : d \in HullDirs(P)}
      best == {r \in rects : \A q \in rects : r.A * q.L <= q.A * r.L}
  IN  IF rects = {}
      THEN {BoxPoints(RectAlong(P, <<1, 0>>), unit, img_width, img_height)}
      ELSE {BoxPoints(r, unit, img_width, img_height) : r \in best}

(***************************************************************************)
(* obb: convert_labelstudio_to_yolo_obb, create_dataset_yaml and main      *)
(***************************************************************************)
\* np.random.seed(42): genrand_uint32() & 0xff
NpStream ==
  <<102, 179, 92, 14, 106, 71, 188, 20, 102, 121, 210, 214, 74, 202, 87, 116, 99,
    103, 151, 130, 149, 52, 1, 87, 235, 157, 37, 129, 191, 187, 20, 160, 203, 57, 21,
    252, 235, 88, 48, 218>>

\* random_interval(max): the draws are masked to the bits of max and
\* rejected while above max.  <<the draw, the next position>>.
RECURSIVE RandomInterval(_, _)
RandomInterval(max, pos) ==
  LET value == NpStream[pos] % (2 ^ BitLength(max))
  IN  IF value <= max THEN <<value, pos + 1>> ELSE RandomInterval(max, pos + 1)

\* RandomState.shuffle of a list: for i in reversed(range(1, n)):
\* j = random_interval(i); x[i], x[j] = x[j], x[i]
RECURSIVE NpShuffleFrom(_, _, _)
NpShuffleFrom(x, i, pos) ==
  IF i < 1 THEN x
  ELSE LET d == RandomInterval(i, pos)
       IN  NpShuffleFrom(Swap(x, i + 1, d[1] + 1), i - 1, d[2])

NpShuffle(x) == NpShuffleFrom(x, Len(x) - 1, 1)

ObbTrainTenths == 8

\* Line 256: int(len(all_images) * train_ratio)
ObbSplitIdx(n) == (n * ObbTrainTenths) \div 10

\* The enumerations of a set: the orders in which glob may list it.
RECURSIVE Enumerations(_)
Enumerations(S) ==
  IF S = {} THEN {<<>>}
  ELSE UNION {{<<x>> \o e : e \in Enumerations(S \ {x})} : x \in S}

ImageExts == {DotJpg, <<".", "j", "p", "e", "g">>, DotPng, <<".", "w", "e", "b", "p">>}

ObbExts == <<DotJpg, <<".", "j", "p", "e", "g">>, DotPng, <<".", "w", "e", "b", "p">> >>

LowerChar(c) ==
  IF c \in {"A", "B", "E", "G", "J", "N", "P", "W"}
  THEN [A |-> "a", B |-> "b", E |-> "e", G |-> "g", J |-> "j", N |-> "n",
        P |-> "p", W |-> "w"][c]
  ELSE c

\* str.lower()
Lower(str) == [i \in 1..Len(str) |-> LowerChar(str[i])]

StartsWith(str, prefix) ==
  Len(str) >= Len(prefix) /\ SubSeq(str, 1, Len(prefix)) = prefix

\* The smallest index of character c in str at or after i, 0 when absent.
RECURSIVE FirstIndex(_, _, _)
FirstIndex(str, c, i) ==
  IF i > Len(str) THEN 0 ELSE IF str[i] = c THEN i ELSE FirstIndex(str, c, i + 1)

\* str.split('?')[0]
BeforeQuery(str) ==
  IF FirstIndex(str, "?", 1) = 0 THEN str ELSE SubSeq(str, 1, FirstIndex(str, "?", 1) - 1)

PercentCodes == {<<"2", "E">>, <<"2", "0">>}

PercentChar(code) == IF code = <<"2", "E">> THEN "." ELSE " "

\* urllib.parse.unquote, for the escapes of PercentCodes; other text is
\* kept as it is.
RECURSIVE Unquote(_)
Unquote(str) ==
  IF str = <<>> THEN <<>>
  ELSE IF str[1] = "%" /\ Len(str) >= 3 /\ SubSeq(str, 2, 3) \in PercentCodes
       THEN <<PercentChar(SubSeq(str, 2, 3))>> \o Unquote(SubSeq(str, 4, Len(str)))
       ELSE <<str[1]>> \o Unquote(Tail(str))

DataPrefix == <<"/", "d", "a", "t", "a", "/">>

Http == <<"h", "t", "t", "p">>

\* Lines 141-150: the file name of an image reference.
ImgFilename(img_ref) ==
  Unquote(IF StartsWith(img_ref, DataPrefix) THEN SubSeq(img_ref, LastIndex(img_ref, "/", Len(img_ref)) + 1, Len(img_ref))
          ELSE IF StartsWith(img_ref, Http)
               THEN BeforeQuery(SubSeq(img_ref, LastIndex(img_ref, "/", Len(img_ref)) + 1, Len(img_ref)))
               ELSE PathName(img_ref))

\* Image references of export items.
RefHttpA ==
  <<"h", "t", "t", "p", ":", "/", "/", "h", "/", "a", "%", "2", "E", "j", "p", "g",
    "?", "t", "=", "1">>

RefDataAPng == DataPrefix \o <<"u", "p", "/">> \o APng

\* The extracted directory of an export file: the files beside the JSON
\* (parent), in parent/images, in a deeper folder (nested), and the files
\* cv2.imread cannot decode.
ObbTrees ==
  {[images |-> {AJpg, BJpg}, parent |-> {}, nested |-> {}, unreadable |-> {}],
   [images |-> {AJpg}, parent |-> {}, nested |-> {BJpg}, unreadable |-> {}],
   [images |-> {AJpg}, parent |-> {APng}, nested |-> {}, unreadable |-> {APng}]}

NoSource == <<>>

\* Line 154: [images_dir, json_path.parent, json_path.parent / "images"]
SearchDirs(images_dir) == <<images_dir, "parent", "images">>

\* Lines 160-164: the first extension ext of ObbExts, from the i-th on, with
\* search_dir / (stem + ext) on disk; <<>> when none.
RECURSIVE ExtMatch(_, _, _)
ExtMatch(files, stem, i) ==
  IF i > Len(ObbExts) THEN <<>>
  ELSE IF stem \o ObbExts[i] \in files THEN stem \o ObbExts[i]
  ELSE ExtMatch(files, stem, i + 1)

\* Lines 153-164: the search loop from the i-th directory on, img_source
\* being cur.  An exact name ends the loop; an extension match does not.
RECURSIVE SearchLoop(_, _, _, _, _)
SearchLoop(t, dirs, img_filename, i, cur) ==
  IF i > Len(dirs) THEN cur
  ELSE IF img_filename \in t[dirs[i]] THEN <<dirs[i], img_filename>>
  ELSE LET m == ExtMatch(t[dirs[i]], PathStem(img_filename), 1)
       IN  SearchLoop(t, dirs, img_filename, i + 1,
                      IF m # <<>> THEN <<dirs[i], m>> ELSE cur)

\* Lines 166-171: json_path.parent.rglob("*stem*"), in the platform's order:
\* any file below parent whose name holds the stem and whose suffix is an
\* image's.
RglobMatches(t, img_filename) ==
  {<<d, f>> : <<d, f>> \in
     {e \in {"images", "parent", "nested"} \X (t.images \cup t.parent \cup t.nested) :
        /\ e[2] \in t[e[1]]
        /\ IsSubstr(PathStem(img_filename), e[2])
        /\ Lower(PathSuffix(e[2])) \in ImageExts}}

\* The recursive search tried before the candidate directories.
ImgSourcesRecursiveFirst(t, images_dir, img_filename) ==
  IF RglobMatches(t, img_filename) # {} THEN RglobMatches(t, img_filename)
  ELSE {SearchLoop(t, SearchDirs(images_dir), img_filename, 1, NoSource)}

\* Lines 152-175: the files img_source can be, NoSource when not found.
ImgSources(t, images_dir, img_filename) ==
  LET found == SearchLoop(t, SearchDirs(images_dir), img_filename, 1, NoSource)
  IN  IF found # NoSource THEN {found}
      ELSE IF RglobMatches(t, img_filename) # {} THEN RglobMatches(t, img_filename)
      ELSE {NoSource}

\* Line 338: main passes images_dir = json_path.parent / "images".
MainImagesDir == "images"

\* img.shape of a decoded image: all images of the model are 4 wide, 2 high.
ImgShape(src) == [width |-> 4, height |-> 2]

\* 'result' entries: <<x%, y%>> points on a 4 x 2 image.
\* An obtuse triangle inside the image: its rectangle is axis-aligned.
RIn == [type |-> "polygonlabels", points |-> << <<0, 0>>, <<100, 0>>, <<50, 50>> >>]

\* The same triangle moved half out of the image.
ROut == [type |-> "polygonlabels", points |-> << <<50, 50>>, <<150, 50>>, <<100, 100>> >>]

\* A right triangle inside the image: the rectangle along its hypotenuse
\* has the same area as the axis-aligned one and leaves the image.
RTri == [type |-> "polygonlabels", points |-> << <<0, 0>>, <<100, 100>>, <<100, 0>> >>]

RRect == [type |-> "rectanglelabels", points |-> << >>]

\* A polygon of two points.
RShort == [type |-> "polygonlabels", points |-> << <<0, 0>>, <<100, 100>> >>]

\* Export items: item['data'] holds the image reference, item['annotations']
\* is a list of annotations, each a list of results.
ObbItems ==
  {[has_data |-> FALSE, ref |-> <<>>, annotations |-> << >>],
   [has_data |-> TRUE, ref |-> RefHttpA, annotations |-> << >>],
   [has_data |-> TRUE, ref |-> RefHttpA, annotations |-> << <<RIn>> >>],
   [has_data |-> TRUE, ref |-> RefHttpA, annotations |-> << <<ROut, RIn>> >>],
   [has_data |-> TRUE, ref |-> RefDataAPng, annotations |-> << <<RIn>> >>],
   [has_data |-> TRUE, ref |-> BJpg, annotations |-> << <<ROut>> >>],
   [has_data |-> TRUE, ref |-> BJpg, annotations |-> << <<RTri>> >>],
   [has_data |-> TRUE, ref |-> BJpg, annotations |-> << <<RRect, RShort>>, <<RIn>> >>]}

RECURSIVE Flatten(_)
Flatten(ss) == IF ss = <<>> THEN <<>> ELSE Head(ss) \o Flatten(Tail(ss))

NoFit == <<>>

\* Lines 196-211: what polygon_to_obb can return for each result in turn;
\* NoFit for a result that is skipped before it.
FitsOf(results, shape) ==
  {f \in [1..Len(results) ->
            {NoFit} \cup UNION {PolygonToObb(results[i].points, shape.width, shape.height) :
                                  i \in {j \in 1..Len(results) : Len(results[j].points) >= 3}}] :
     \A i \in 1..Len(results) :
       IF results[i].type # "polygonlabels" \/ Len(results[i].points) < 3
       THEN f[i] = NoFit
       ELSE f[i] \in PolygonToObb(results[i].points, shape.width, shape.height)}

\* Line 214: all(0 <= c <= 1 for c in obb_coords)
ObbValidAlways(obb_coords) == TRUE

ObbValid(obb_coords) == \A i \in 1..Len(obb_coords) : InUnit(obb_coords[i])

\* Lines 213-218: the lines of yolo_lines for the fitted rectangles fits.
RECURSIVE YoloLines(_, _)
YoloLines(fits, i) ==
  IF i > Len(fits) THEN <<>>
  ELSE (IF fits[i] # NoFit /\ ObbValid(fits[i])
        THEN << [class |-> 0, coords |-> fits[i]] >>
        ELSE <<>>) \o YoloLines(fits, i + 1)

\* Line 225: f"{images_processed:04d}_{img_source.stem}{img_source.suffix}"
OutputImgName(count, src_name) ==
  ZeroPad(Digits(count), 4) \o <<"_">> \o PathStem(src_name) \o PathSuffix(src_name)

\* Line 230: f"{output_img_name.rsplit('.', 1)[0]}.txt"
LabelName(output_img_name) ==
  (IF LastIndex(output_img_name, ".", Len(output_img_name)) = 0
   THEN output_img_name
   ELSE SubSeq(output_img_name, 1, LastIndex(output_img_name, ".", Len(output_img_name)) - 1))
    \o DotTxt

InitObb ==
  /\ json_idx = 0
  /\ tree = <<>>
  /\ images_processed = 0
  /\ total_annotations = 0
  /\ total_images = 0
  /\ total_annots = 0
  /\ accepted = {}
  /\ n_items = 0
  /\ categories = <<>>

\* Lines 307-334: the input directory is checked, the output directory
\* recreated, the archives extracted and the export files looked for.
ObbStart ==
  /\ pipeline = "obb"
  /\ pc = "start"
  /\ IF ~input_exists
     THEN /\ pc' = "no_input_dir"
          /\ UNCHANGED <<out_images, out_labels, manifest, work_dir, out_dir>>
     ELSE \E outcome \in {"bad_zip", "no_exports", "exports"} :
            /\ pc' = outcome
            /\ out_images' = <<>>
            /\ out_labels' = <<>>
            /\ manifest' = FALSE
            /\ out_dir' = "fresh"
            /\ \E w \in {"empty", "extracted"} :
                 /\ outcome = "exports" => w = "extracted"
                 /\ work_dir' = w
  /\ UNCHANGED <<pipeline, mergeVars, convVars, train_ids, valid_ids, obbVars,
                 cocoVars, input_exists, scanVars, rerunVars>>

\* Lines 336-340 and 115-124: the next export file is opened.
ObbBeginExport ==
  /\ pipeline = "obb"
  /\ pc = "exports"
  /\ json_idx < MaxExports
  /\ json_idx' = json_idx + 1
  /\ \E t \in ObbTrees : tree' = t
  /\ images_processed' = 0
  /\ total_annotations' = 0
  /\ pc' = "items"
  /\ last_in' = NoInput
  /\ UNCHANGED <<pipeline, zip_idx, extracted, image_id_map, combined_images,
                 combined_annotations, next_image_id, next_annotation_id,
                 total_images_copied, annotations_added, img_origin, unresolved,
                 n_recs, convVars, outVars, total_images, total_annots, accepted,
                 n_items, cocoVars, envVars, scanVars, rerunVars>>

\* Lines 126-234: one item of the export.
ObbConvertItem ==
  /\ pipeline = "obb"
  /\ pc = "items"
  /\ n_items < MaxItems
  /\ n_items' = n_items + 1
  /\ \E item \in ObbItems :
       IF ~item.has_data
       THEN /\ last_in' = [kind |-> "item", fits |-> <<>>, lines |-> <<>>,
                           before |-> total_annotations, label |-> <<>>,
                           has_ref |-> FALSE, found |-> FALSE, readable |-> FALSE]
            /\ UNCHANGED <<images_processed, total_annotations, out_images,
                           out_labels, accepted>>
       ELSE
         \E img_source \in ImgSources(tree, MainImagesDir, ImgFilename(item.ref)) :
           IF \/ img_source = NoSource
              \/ img_source[2] \in tree.unreadable
              \/ item.annotations = << >>
           THEN /\ last_in' = [kind |-> "item", fits |-> <<>>, lines |-> <<>>,
                               before |-> total_annotations, label |-> <<>>,
                               has_ref |-> TRUE,
                               found |-> img_source # NoSource,
                               readable |-> /\ img_source # NoSource
                                            /\ img_source[2] \notin tree.unreadable]
                /\ UNCHANGED <<images_processed, total_annotations, out_images,
                               out_labels, accepted>>
           ELSE
             \E fits \in FitsOf(Flatten(item.annotations), ImgShape(img_source)) :
               LET yolo_lines == YoloLines(fits, 1)
                   output_img_name == OutputImgName(images_processed, img_source[2])
               IN  /\ total_annotations' = total_annotations + Len(yolo_lines)
                   /\ last_in' = [kind |-> "item", fits |-> fits,
                                  lines |-> yolo_lines, before |-> total_annotations,
                                  label |-> IF yolo_lines # <<>>
                                            THEN LabelName(output_img_name)
                                            ELSE <<>>,
                                  has_ref |-> TRUE, found |-> TRUE,
                                  readable |-> TRUE]
                   /\ IF yolo_lines # <<>>
                      THEN /\ out_images' = MapPut(out_images,
                                                   <<"images", output_img_name>>,
                                                   <<json_idx>> \o img_source)
                           /\ out_labels' = MapPut(out_labels,
                                                   <<"labels", LabelName(output_img_name)>>,
                                                   yolo_lines)
                           /\ images_processed' = images_processed + 1
                           /\ accepted' = accepted \cup {<<json_idx, output_img_name>>}
                      ELSE UNCHANGED <<images_processed, out_images, out_labels,
                                       accepted>>
  /\ UNCHANGED <<pipeline, pc, zip_idx, extracted, image_id_map, combined_images,
                 combined_annotations, next_image_id, next_annotation_id,
                 total_images_copied, annotations_added, img_origin, unresolved,
                 n_recs, convVars, train_ids, valid_ids, manifest, json_idx, tree,
                 total_images, total_annots, cocoVars, envVars, scanVars,
                 rerunVars>>

\* Lines 236 and 340-343: the converter returns its counts and main adds
\* them up.
ObbEndExport ==
  /\ pipeline = "obb"
  /\ pc = "items"
  /\ total_images' = total_images + images_processed
  /\ total_annots' = total_annots + total_annotations
  /\ images_processed' = 0
  /\ total_annotations' = 0
  /\ tree' = <<>>
  /\ last_in' = NoInput
  /\ pc' = "exports"
  /\ UNCHANGED <<pipeline, zip_idx, extracted, image_id_map, combined_images,
                 combined_annotations, next_image_id, next_annotation_id,
                 total_images_copied, annotations_added, img_origin, unresolved,
                 n_recs, convVars, outVars, json_idx, accepted, n_items,
                 cocoVars, envVars, scanVars, rerunVars>>

\* Line 246: the files of images/ with an image suffix.
AllImages ==
  {k[2] : k \in {e \in DOMAIN out_images :
                   e[1] = "images" /\ Lower(PathSuffix(e[2])) \in ImageExts}}

ObbSplitOverlap(all_images) ==
  LET shuffled == NpShuffle(all_images)
      split_idx == ObbSplitIdx(Len(shuffled))
  IN  [train |-> Range(SubSeq(shuffled, 1, split_idx)),
       val |-> Range(SubSeq(shuffled, split_idx, Len(shuffled)))]

\* Lines 253-258 for the enumeration all_images of the image files.
ObbSplit(all_images) ==
  LET shuffled == NpShuffle(all_images)
      split_idx == ObbSplitIdx(Len(shuffled))
  IN  [train |-> Range(SubSeq(shuffled, 1, split_idx)),
       val |-> Range(SubSeq(shuffled, split_idx + 1, Len(shuffled)))]

\* shutil.move of every image of names, and of its label when there is one,
\* from dir to split.
MoveAll(files, names, dir, split, label) ==
  LET moved == {<<dir, IF label THEN PathStem(n) \o DotTxt ELSE n>> : n \in names}
      keep == (DOMAIN files) \ moved
      new == {<<split, k[2]>> : k \in moved \cap DOMAIN files}
  IN  [k \in keep \cup new |->
         IF k \in new /\ <<dir, k[2]>> \in moved \cap DOMAIN files
         THEN files[<<dir, k[2]>>] ELSE files[k]]

\* Lines 349-351 and 239-298: create_dataset_yaml, after the last export.
ObbCreateDatasetYaml ==
  /\ pipeline = "obb"
  /\ pc = "exports"
  /\ json_idx >= 1
  /\ IF AllImages = {}
     THEN UNCHANGED outVars
     ELSE \E all_images \in Enumerations(AllImages) :
            LET sp == ObbSplit(all_images)
            IN  /\ train_ids' = sp.train
                /\ valid_ids' = sp.val
                /\ out_images' = MoveAll(MoveAll(out_images, sp.train, "images", "train", FALSE),
                                         sp.val, "images", "val", FALSE)
                /\ out_labels' = MoveAll(MoveAll(out_labels, sp.train, "labels", "train", TRUE),
                                         sp.val, "labels", "val", TRUE)
                /\ manifest' = TRUE
  /\ pc' = "split"
  /\ UNCHANGED <<pipeline, mergeVars, convVars, obbVars, cocoVars,
                 envVars, scanVars, rerunVars>>

\* Lines 353-364: raw_extracted is removed and main returns.
ObbFinish ==
  /\ pipeline = "obb"
  /\ pc = "split"
  /\ work_dir' = "removed"
  /\ pc' = "done"
  /\ UNCHANGED <<pipeline, mergeVars, convVars, outVars, obbVars, cocoVars,
                 input_exists, out_dir, scanVars, rerunVars>>

(***************************************************************************)
(* coco: convert_coco_to_yolov8seg                                         *)
(***************************************************************************)
\* coco_data['categories'], as the category ids in file order.
CocoCategories == {<<1>>, <<2, 1>>}

\* One entry of image_info with the annotations grouped under its id;
\* on_disk tells whether images_dir holds the file.
CocoAnnLists ==
  {<< >>,
   << [category_id |-> 1, segmentation |-> << <<-1, 0, 5, 1, 2, 3>> >>] >>,
   << [category_id |-> 1, segmentation |-> << >>],
      [category_id |-> 1, segmentation |-> << <<0, 0, 4, 2, 2, 1>> >>] >>,
   << [category_id |-> 2, segmentation |-> << <<0, 0, 4, 0, 4, 2>> >>] >>,
   << [category_id |-> 1, segmentation |-> << <<1, 1, 2>> >>] >>}

CocoImages ==
  [file_name : {AJpg, BJpg}, width : Widths, height : Heights, on_disk : BOOLEAN,
   annotations : CocoAnnLists]

\* Line 44: {cat['id']: idx for idx, cat in enumerate(categories)}; the last
\* index wins for a repeated id.  0 when cat_id is no key.
RECURSIVE CategoryIndex(_, _, _)
CategoryIndex(cats, cat_id, i) ==
  IF i < 1 THEN 0 ELSE IF cats[i] = cat_id THEN i ELSE CategoryIndex(cats, cat_id, i - 1)

\* Lines 111-115: segmentation[i] / img_width, segmentation[i + 1] / img_height
RECURSIVE CocoCoords(_, _, _, _)
CocoCoords(segmentation, i, w, h) ==
  IF i > Len(segmentation) THEN <<>>
  ELSE <<Ratio(segmentation[i], w), Ratio(segmentation[i + 1], h)>>
         \o CocoCoords(segmentation, i + 2, w, h)

\* Lines 97-119: the lines written for the annotations from the k-th on,
\* and whether the loop ran to its end: categories[...] raises KeyError for
\* an unknown category, segmentation[i + 1] IndexError for an odd length.
RECURSIVE CocoLabel(_, _, _)
CocoLabel(cats, img, k) ==
  IF k > Len(img.annotations) THEN [lines |-> <<>>, ok |-> TRUE]
  ELSE LET ann == img.annotations[k]
           rest == CocoLabel(cats, img, k + 1)
       IN  IF CategoryIndex(cats, ann.category_id, Len(cats)) = 0
           THEN [lines |-> <<>>, ok |-> FALSE]
           ELSE IF ann.segmentation = << >> THEN rest
           ELSE IF Len(ann.segmentation[1]) % 2 = 1
                THEN [lines |-> <<>>, ok |-> FALSE]
                ELSE [lines |->
                        << [class |-> CategoryIndex(cats, ann.category_id, Len(cats)) - 1,
                            category_id |-> ann.category_id,
                            coords |-> CocoCoords(ann.segmentation[1], 1, img.width,
                                                  img.height)] >> \o rest.lines,
                      ok |-> rest.ok]

\* Lines 135-137: the names table of data.yaml, one entry per key of
\* categories in sorted(categories.keys()) order; a name is written here as
\* the id of its category.
RECURSIVE SortedSeq(_)
SortedSeq(S) == IF S = {} THEN <<>> ELSE <<MinOf(S)>> \o SortedSeq(S \ {MinOf(S)})

CocoNames(cats) == SortedSeq(Range(cats))

\* Nine of ten to train, the tenth to valid.
CocoSplitNoTest(count) == IF count % 10 < 9 THEN "train" ELSE "valid"

\* Lines 75-80
CocoSplit(count) ==
  IF count % 10 < 8 THEN "train" ELSE IF count % 10 = 8 THEN "valid" ELSE "test"

\* open(label_path, 'a'): the lines are added to what the file holds.
OpenA(files, k, lines) == IF k \in DOMAIN files THEN files[k] \o lines ELSE lines

\* Line 96: open(label_path, 'w'): the file holds the lines written now,
\* whatever it held before.
OpenW(files, k, lines) == lines

\* Lines 32-66: the JSON with the categories cats is read, the output
\* directories are made (exist_ok), the counters start at 0.
CocoBegin(cats) ==
  /\ pipeline = "coco"
  /\ pc = "start"
  /\ categories' = cats
  /\ converted_count' = 0
  /\ skipped_count' = 0
  /\ pc' = "images"
  /\ UNCHANGED <<pipeline, mergeVars, image_ids, conv_i, outVars, obbVars, envVars,
                 scanVars>>

\* Lines 68-123: the entry img of image_info.
CocoConvertStep(img) ==
  /\ pipeline = "coco"
  /\ pc = "images"
  /\ n_recs' = n_recs + 1
  /\ LET split == CocoSplit(converted_count)
         label == CocoLabel(categories, img, 1)
         label_key == <<split, PathStem(img.file_name) \o DotTxt>>
     IN  IF ~img.on_disk
         THEN /\ skipped_count' = skipped_count + 1
              /\ UNCHANGED <<pc, converted_count, out_images, out_labels>>
         ELSE /\ out_images' = MapPut(out_images, <<split, img.file_name>>,
                                      [name |-> img.file_name, k |-> converted_count])
              /\ out_labels' = MapPut(out_labels, label_key,
                                      OpenW(out_labels, label_key, label.lines))
              /\ IF label.ok
                 THEN /\ converted_count' = converted_count + 1
                      /\ UNCHANGED pc
                 ELSE /\ pc' = "failed"
                      /\ UNCHANGED converted_count
              /\ UNCHANGED skipped_count
  /\ UNCHANGED <<pipeline, zip_idx, extracted, image_id_map, combined_images,
                 combined_annotations, next_image_id, next_annotation_id,
                 total_images_copied, annotations_added, img_origin, unresolved,
                 last_in, image_ids, conv_i, train_ids, valid_ids, manifest,
                 obbVars, cocoVars, envVars, scanVars>>

\* Lines 125-137: data.yaml is written.
CocoEnd ==
  /\ pipeline = "coco"
  /\ pc = "images"
  /\ manifest' = TRUE
  /\ pc' = "done"
  /\ UNCHANGED <<pipeline, mergeVars, convVars, train_ids, valid_ids, out_images,
                 out_labels, obbVars, cocoVars, envVars, scanVars>>

CocoStart ==
  /\ \E cats \in CocoCategories : CocoBegin(cats)
  /\ UNCHANGED rerunVars

CocoConvertImage ==
  /\ n_recs < MaxRecs
  /\ \E img \in CocoImages : CocoConvertStep(img)
  /\ UNCHANGED rerunVars

CocoFinish ==
  /\ CocoEnd
  /\ UNCHANGED rerunVars

\* The name of the i-th image of a prepared corpus.
CorpusName(i) == Digits(i) \o DotJpg

\* Lines 68-123 for a COCO file whose images have distinct file names and
\* one polygon each: the n-th entry is n.jpg, on disk or not.
CocoConvertCorpusImage ==
  /\ n_recs < MaxCocoCorpus
  /\ \E on_disk \in BOOLEAN :
       CocoConvertStep([file_name |-> CorpusName(n_recs + 1), width |-> 4,
                        height |-> 2, on_disk |-> on_disk,
                        annotations |->
                          << [category_id |-> 1,
                              segmentation |-> << <<0, 0, 4, 2, 2, 1>> >>] >>])
  /\ UNCHANGED rerunVars

(***************************************************************************)
(* obb: find_labelstudio_json                                              *)
(***************************************************************************)
\* What json.load makes of a file: parses tells whether it returns at all,
\* is_list whether the value is a list, records the elements of the list,
\* each a dict with its keys or something else (a number).
JsonRecord(keys) == [is_dict |-> TRUE, keys |-> keys]

JsonNumber == [is_dict |-> FALSE, keys |-> {}]

JsonList(records) == [parses |-> TRUE, is_list |-> TRUE, records |-> records]

JsonFiles ==
  {[parses |-> FALSE, is_list |-> FALSE, records |-> <<>>],
   [parses |-> TRUE, is_list |-> FALSE, records |-> <<>>],
   JsonList(<<>>),
   JsonList(<<JsonRecord({"data", "annotations"})>>),
   JsonList(<<JsonRecord({"data", "annotations"}), JsonRecord({"data", "annotations"})>>),
   JsonList(<<JsonRecord({"data"})>>),
   JsonList(<<JsonRecord({"annotations", "id"})>>),
   JsonList(<<JsonRecord({"data", "annotations"}), JsonRecord({"id"})>>),
   JsonList(<<JsonRecord({"id"}), JsonRecord({"data", "annotations"})>>),
   JsonList(<<JsonNumber>>)}

\* Lines 59-69: whether the file is appended to json_files.  A file that
\* does not parse, and a first element that is no container ('in' raises
\* TypeError), end in the bare except.
IsLabelStudio(file) ==
  /\ file.parses
  /\ file.is_list
  /\ Len(file.records) > 0
  /\ file.records[1].is_dict
  /\ ("annotations" \in file.records[1].keys \/ "data" \in file.records[1].keys)

\* Lines 58-69: the next JSON file of extract_dir.rglob("*.json").
ScanJson ==
  /\ pipeline = "obb"
  /\ pc = "scan"
  /\ Len(scanned) < MaxScan
  /\ \E file \in JsonFiles :
       /\ scanned' = Append(scanned, file)
       /\ json_files' = IF IsLabelStudio(file) THEN Append(json_files, file)
                        ELSE json_files
  /\ UNCHANGED <<pipeline, pc, mergeVars, convVars, outVars, obbVars, cocoVars,
                 envVars, rerunVars>>

\* Lines 71 and 324-329: the list is returned; main returns when it is empty.
ScanDone ==
  /\ pipeline = "obb"
  /\ pc = "scan"
  /\ pc' = IF json_files = <<>> THEN "no_exports" ELSE "exports"
  /\ UNCHANGED <<pipeline, mergeVars, convVars, outVars, obbVars, cocoVars,
                 envVars, scanVars, rerunVars>>

\* The exit status of the process once the script has ended.  The mains of
\* the OBB and COCO scripts return None on every path (status 0) and an
\* uncaught exception ends the interpreter with status 1; the segmentation
\* main turns every exception into sys.exit(1).
ExitStatus == IF pc \in {"bad_zip", "failed"} THEN 1 ELSE 0

\* The counts a script prints when it is over: "Converted / Skipped" of
\* the COCO converter and of convert_to_yolov8_seg, "Total images / Total
\* annotations" of extract_and_combine_coco and of the OBB main.
RunSummary ==
  IF pipeline = "coco" \/ (pipeline = "seg" /\ pc \in {"convert", "done"})
  THEN [converted |-> converted_count, skipped |-> skipped_count]
  ELSE IF pipeline = "seg"
       THEN [images |-> Len(combined_images), annotations |-> Len(combined_annotations)]
       ELSE [images |-> total_images, annotations |-> total_annots]

\* Line 192: "[OK] Added {len(image_id_map)} images, {annotations_added}
\* annotations", printed when the annotation loop of a project is over.
ProjectReport ==
  [images |-> Cardinality(DOMAIN image_id_map), annotations |-> annotations_added]

(***************************************************************************)
(* Specifications.                                                         *)
(***************************************************************************)
InitSegRun ==
  /\ pipeline = "seg"
  /\ pc = "start"
  /\ InitSeg
  /\ InitOut
  /\ InitObb
  /\ InitEnv

NextSeg ==
  \/ SegStart
  \/ StartProject
  \/ AddImage
  \/ BeginAnnotations
  \/ AddAnnotation
  \/ FinishMerge
  \/ BeginConvert
  \/ ConvertImage
  \/ FinishConvert

SpecSeg == InitSegRun /\ [][NextSeg]_vars

InitObbRun ==
  /\ pipeline = "obb"
  /\ pc = "start"
  /\ InitSeg
  /\ InitOut
  /\ InitObb
  /\ InitEnv

NextObb ==
  \/ ObbStart
  \/ ObbBeginExport
  \/ ObbConvertItem
  \/ ObbEndExport
  \/ ObbCreateDatasetYaml
  \/ ObbFinish

SpecObb == InitObbRun /\ [][NextObb]_vars

InitCocoRun ==
  /\ pipeline = "coco"
  /\ pc = "start"
  /\ InitSeg
  /\ InitOut
  /\ InitObb
  /\ InitEnv
  /\ input_exists

NextCoco ==
  \/ CocoStart
  \/ CocoConvertImage
  \/ CocoFinish

SpecCoco == InitCocoRun /\ [][NextCoco]_vars

\* Two runs of the COCO converter in a row on the same input: the first run
\* records what it reads, RunAgain starts the script again on the tree the
\* first run left (lines 37-41 make the directories with exist_ok and delete
\* nothing), and the second run reads the recorded input.
RerunStart ==
  /\ IF run = 1
     THEN \E cats \in CocoCategories :
            /\ CocoBegin(cats)
            /\ inputs' = <<cats>>
     ELSE /\ CocoBegin(inputs[1])
          /\ UNCHANGED inputs
  /\ UNCHANGED <<run, first_out>>

RerunConvertImage ==
  /\ IF run = 1
     THEN /\ n_recs < MaxRerun
          /\ \E img \in CocoImages :
               /\ CocoConvertStep(img)
               /\ inputs' = Append(inputs, img)
     ELSE /\ n_recs + 1 < Len(inputs)
          /\ CocoConvertStep(inputs[n_recs + 2])
          /\ UNCHANGED inputs
  /\ UNCHANGED <<run, first_out>>

RerunFinish ==
  /\ run = 1 \/ n_recs + 1 = Len(inputs)
  /\ CocoEnd
  /\ UNCHANGED rerunVars

OutputTree == [images |-> out_images, labels |-> out_labels, manifest |-> manifest]

RunAgain ==
  /\ pipeline = "coco"
  /\ run = 1
  /\ pc \in {"done", "failed"}
  /\ run' = 2
  /\ first_out' = OutputTree
  /\ pc' = "start"
  /\ n_recs' = 0
  /\ UNCHANGED <<pipeline, zip_idx, extracted, image_id_map, combined_images,
                 combined_annotations, next_image_id, next_annotation_id,
                 total_images_copied, annotations_added, img_origin, unresolved,
                 last_in, convVars, outVars, obbVars, cocoVars, envVars, scanVars,
                 inputs>>

NextRerun ==
  \/ RerunStart
  \/ RerunConvertImage
  \/ RerunFinish
  \/ RunAgain

SpecRerun == InitCocoRun /\ [][NextRerun]_vars

\* polygon_to_obb on its own.  The polygons are the strictly convex ones of
\* 3..MaxVertices vertices on a grid of quarter percentages, given in either
\* orientation from any first vertex.
GeomPoints == {<<25 * i, 25 * j>> : i, j \in 0..MaxGrid}

GeomShapes == {<<4, 2>>, <<2, 4>>}

IsConvex(poly) ==
  LET n == Len(poly)
      Side(i, j) == Cross(poly[i], poly[(i % n) + 1], poly[j])
      Others(i) == (1..n) \ {i, (i % n) + 1}
  IN  \/ \A i \in 1..n : \A j \in Others(i) : Side(i, j) > 0
      \/ \A i \in 1..n : \A j \in Others(i) : Side(i, j) < 0

\* The sequences of n grid points that turn the same way at every vertex.
RECURSIVE TurningChains(_)
TurningChains(n) ==
  IF n = 2
  THEN {<<p, q>> : <<p, q>> \in {e \in GeomPoints \X GeomPoints : e[1] # e[2]}}
  ELSE {Append(c, p) :
          <<c, p>> \in {e \in TurningChains(n - 1) \X GeomPoints :
                          LET c == e[1]
                              k == Len(c)
                              t == Cross(c[k - 1], c[k], e[2])
                          IN  /\ t # 0
                              /\ k > 2 => (t > 0) = (Cross(c[1], c[2], c[3]) > 0)}}

ConvexPolygons ==
  UNION {{c \in TurningChains(n) : IsConvex(c)} : n \in 3..MaxVertices}

InitGeom ==
  /\ pipeline = "obb"
  /\ pc = "polygon"
  /\ zip_idx = 0
  /\ extracted = <<>>
  /\ image_id_map = <<>>
  /\ combined_images = <<>>
  /\ combined_annotations = <<>>
  /\ next_image_id = 0
  /\ next_annotation_id = 0
  /\ total_images_copied = 0
  /\ annotations_added = 0
  /\ img_origin = <<>>
  /\ unresolved = {}
  /\ \E points \in ConvexPolygons, shape \in GeomShapes :
       last_in = [kind |-> "polygon", points |-> points, img_width |-> shape[1],
                  img_height |-> shape[2], box |-> <<>>]
  /\ n_recs = 0
  /\ image_ids = <<>>
  /\ conv_i = 0
  /\ converted_count = 0
  /\ skipped_count = 0
  /\ InitOut
  /\ InitObb
  /\ input_exists = TRUE
  /\ work_dir = "extracted"
  /\ out_dir = "fresh"
  /\ scanned = <<>>
  /\ json_files = <<>>
  /\ run = 1
  /\ inputs = <<>>
  /\ first_out = <<>>

\* Line 211: obb_coords = polygon_to_obb(points, img_width, img_height).
PolygonToObbCall ==
  /\ pipeline = "obb"
  /\ pc = "polygon"
  /\ \E box \in PolygonToObb(last_in.points, last_in.img_width, last_in.img_height) :
       last_in' = [last_in EXCEPT !.box = box]
  /\ pc' = "polygon_done"
  /\ UNCHANGED <<pipeline, zip_idx, extracted, image_id_map, combined_images,
                 combined_annotations, next_image_id, next_annotation_id,
                 total_images_copied, annotations_added, img_origin, unresolved,
                 n_recs, convVars, outVars, obbVars, cocoVars, envVars, scanVars,
                 rerunVars>>

NextGeom == PolygonToObbCall

SpecGeom == InitGeom /\ [][NextGeom]_vars

\* The image resolution of convert_labelstudio_to_yolo_obb on its own, for a
\* caller's images_dir that is json_path.parent / "images" (as in main) or
\* another directory (given), outside the export's directory.
ResolveFiles == {AJpg, APng}

ResolveTrees ==
  [given : SUBSET ResolveFiles, images : SUBSET ResolveFiles,
   parent : SUBSET ResolveFiles, nested : SUBSET ResolveFiles]

InitResolve ==
  /\ pipeline = "obb"
  /\ pc = "resolve"
  /\ zip_idx = 0
  /\ extracted = <<>>
  /\ image_id_map = <<>>
  /\ combined_images = <<>>
  /\ combined_annotations = <<>>
  /\ next_image_id = 0
  /\ next_annotation_id = 0
  /\ total_images_copied = 0
  /\ annotations_added = 0
  /\ img_origin = <<>>
  /\ unresolved = {}
  /\ \E t \in ResolveTrees, d \in {MainImagesDir, "given"}, f \in ResolveFiles :
       last_in = [kind |-> "resolve", t |-> t, images_dir |-> d,
                  img_filename |-> f, img_source |-> NoSource]
  /\ n_recs = 0
  /\ image_ids = <<>>
  /\ conv_i = 0
  /\ converted_count = 0
  /\ skipped_count = 0
  /\ InitOut
  /\ InitObb
  /\ input_exists = TRUE
  /\ work_dir = "extracted"
  /\ out_dir = "fresh"
  /\ scanned = <<>>
  /\ json_files = <<>>
  /\ run = 1
  /\ inputs = <<>>
  /\ first_out = <<>>

\* Lines 152-171.
ResolveImage ==
  /\ pipeline = "obb"
  /\ pc = "resolve"
  /\ \E img_source \in ImgSources(last_in.t, last_in.images_dir, last_in.img_filename) :
       last_in' = [last_in EXCEPT !.img_source = img_source]
  /\ pc' = "resolved"
  /\ UNCHANGED <<pipeline, zip_idx, extracted, image_id_map, combined_images,
                 combined_annotations, next_image_id, next_annotation_id,
                 total_images_copied, annotations_added, img_origin, unresolved,
                 n_recs, convVars, outVars, obbVars, cocoVars, envVars, scanVars,
                 rerunVars>>

NextResolve == ResolveImage

SpecResolve == InitResolve /\ [][NextResolve]_vars

\* The split of the COCO converter over a long list of images.
NextCocoSplit ==
  \/ CocoStart
  \/ CocoConvertCorpusImage
  \/ CocoFinish

SpecCocoSplit == InitCocoRun /\ [][NextCocoSplit]_vars

\* The splitters on their own: they start in the state after a merge of m
\* images (one archive, no annotations), or after the conversion of one
\* export of m accepted items.
SegCorpus(m) ==
  /\ pipeline = "seg"
  /\ pc = "merged"
  /\ zip_idx = 0
  /\ extracted = << {CorpusName(i - 1) : i \in 1..m} >>
  /\ image_id_map = <<>>
  /\ combined_images =
       [i \in 1..m |-> [id |-> NewImageId(1, i - 1),
                        file_name |-> NewFilename(1, CorpusName(i - 1)),
                        width |-> 4, height |-> 2]]
  /\ combined_annotations = <<>>
  /\ next_image_id = 0
  /\ next_annotation_id = 0
  /\ total_images_copied = 0
  /\ annotations_added = 0
  /\ img_origin = [i \in 1..m |-> [project |-> 1, name |-> CorpusName(i - 1)]]
  /\ unresolved = {}
  /\ last_in = NoInput
  /\ n_recs = 0
  /\ image_ids = <<>>
  /\ conv_i = 0
  /\ converted_count = 0
  /\ skipped_count = 0
  /\ InitOut
  /\ InitObb
  /\ input_exists = TRUE
  /\ work_dir = "fresh"
  /\ out_dir = "old"
  /\ scanned = <<>>
  /\ json_files = <<>>
  /\ run = 1
  /\ inputs = <<>>
  /\ first_out = <<>>

ObbCorpus(m) ==
  LET names == {OutputImgName(i - 1, AJpg) : i \in 1..m}
      lines == YoloLines(<<CHOOSE f \in PolygonToObb(RIn.points, 4, 2) : TRUE>>, 1)
  IN  /\ pipeline = "obb"
      /\ pc = "exports"
      /\ InitSeg
      /\ train_ids = {}
      /\ valid_ids = {}
      /\ out_images = IF m = 0 THEN <<>>
                      ELSE [k \in {<<"images", n>> : n \in names} |-> <<1, "images", AJpg>>]
      /\ out_labels = IF m = 0 THEN <<>>
                      ELSE [k \in {<<"labels", LabelName(n)>> : n \in names} |-> lines]
      /\ manifest = FALSE
      /\ json_idx = 1
      /\ tree = <<>>
      /\ images_processed = 0
      /\ total_annotations = 0
      /\ total_images = m
      /\ total_annots = m
      /\ accepted = {<<1, n>> : n \in names}
      /\ n_items = m
      /\ categories = <<>>
      /\ input_exists = TRUE
      /\ work_dir = "extracted"
      /\ out_dir = "fresh"
      /\ scanned = <<>>
      /\ json_files = <<>>
      /\ run = 1
      /\ inputs = <<>>
      /\ first_out = <<>>

InitSplit ==
  \/ \E m \in 1..MaxSegCorpus : SegCorpus(m)
  \/ \E m \in 0..MaxObbCorpus : ObbCorpus(m)

NextSplit ==
  \/ BeginConvert
  \/ ConvertImage
  \/ FinishConvert
  \/ ObbCreateDatasetYaml
  \/ ObbFinish

SpecSplit == InitSplit /\ [][NextSplit]_vars

\* find_labelstudio_json on its own: main after extract_all_zips (line 324).
InitScan ==
  /\ pipeline = "obb"
  /\ pc = "scan"
  /\ InitSeg
  /\ InitOut
  /\ InitObb
  /\ input_exists = TRUE
  /\ work_dir = "extracted"
  /\ out_dir = "fresh"
  /\ scanned = <<>>
  /\ json_files = <<>>
  /\ run = 1
  /\ inputs = <<>>
  /\ first_out = <<>>

NextScan ==
  \/ ScanJson
  \/ ScanDone

SpecScan == InitScan /\ [][NextScan]_vars

(***************************************************************************)
(* Properties of extract_and_combine_coco.                                 *)
(***************************************************************************)
ImgIdx == 1..Len(combined_images)

\* C1: two merged images that come from different project archives and from
\* files of the same name are distinct entries with different output file
\* names.
C1_CrossProjectNamesDiffer ==
  \A i, j \in ImgIdx :
    (/\ img_origin[i].project # img_origin[j].project
     /\ img_origin[i].name = img_origin[j].name)
      => /\ i # j
         /\ combined_images[i].file_name # combined_images[j].file_name

C1_Witness ==
  \E i, j \in ImgIdx :
    /\ img_origin[i].project # img_origin[j].project
    /\ img_origin[i].name = img_origin[j].name

\* C3: no two entries of the merged corpus, whether from the same project or
\* from different projects, share an output file name.
C3_AllNamesDistinct ==
  \A i, j \in ImgIdx :
    i # j => combined_images[i].file_name # combined_images[j].file_name

\* C4: merged image identifiers are 0, 1, 2, ... in order of addition, and so
\* are merged annotation identifiers, whatever the source identifiers were.
C4_IdsFromSharedCounters ==
  /\ \A i \in ImgIdx : combined_images[i].id = i - 1
  /\ \A k \in 1..Len(combined_annotations) : combined_annotations[k].id = k - 1

C4_Witness ==
  /\ Len(combined_images) >= 2
  /\ Len(combined_annotations) >= 2
  /\ img_origin[1].project # img_origin[2].project

\* C5: an annotation whose source image record was not resolved to a file is
\* never appended to the merged annotation list.
C5_UnresolvedAnnotationDropped ==
  (last_in.kind = "annotation" /\ last_in.image_id \in unresolved)
    => ~last_in.added

\* C2: in the OBB pipeline two accepted images that come from two different
\* export files are never written under the same output image name or the
\* same label name.
C2_ExportsNeverShareOutputName ==
  \A a, b \in accepted :
    a[1] # b[1] => (a[2] # b[2] /\ LabelName(a[2]) # LabelName(b[2]))

\* The splitter of the running pipeline has assigned the images.
SplitDone ==
  \/ pipeline = "seg" /\ pc \in {"convert", "done"}
  \/ pipeline = "obb" /\ pc \in {"split", "done"}

\* The images the splitter was given: the merged identifiers (seg), the image
\* files of the output tree (obb).
Corpus ==
  IF pipeline = "seg"
  THEN {combined_images[i].id : i \in 1..Len(combined_images)}
  ELSE {k[2] : k \in {e \in DOMAIN out_images : Lower(PathSuffix(e[2])) \in ImageExts}}

\* C6: for a corpus of at least two images the train and validation subsets
\* of either seeded splitter are disjoint and their union is the corpus; in
\* the OBB pipeline every image file lies in the directory of its subset.
C6_SplitPartitionsCorpus ==
  (SplitDone /\ Cardinality(Corpus) >= 2) =>
    /\ train_ids \cap valid_ids = {}
    /\ train_ids \cup valid_ids = Corpus
    /\ pipeline = "obb" =>
         \A n \in Corpus :
           /\ <<"train", n>> \in DOMAIN out_images <=> n \in train_ids
           /\ <<"val", n>> \in DOMAIN out_images <=> n \in valid_ids
           /\ <<"images", n>> \notin DOMAIN out_images

C6_Witness ==
  /\ SplitDone
  /\ pipeline = "obb"
  /\ Cardinality(Corpus) >= 5
  /\ Cardinality(valid_ids) >= 2

\* C7: the train subset has floor(f * M) of the M images and the validation
\* subset the other M - floor(f * M), f being 8/10 in the OBB pipeline and
\* 9/10 in the segmentation pipeline.
C7_TrainSizeIsFloor ==
  SplitDone =>
    LET M == Cardinality(Corpus)
        t == Cardinality(train_ids)
        f10 == IF pipeline = "obb" THEN 8 ELSE 9
    IN  /\ t * 10 <= f10 * M
        /\ f10 * M < (t + 1) * 10
        /\ Cardinality(valid_ids) = M - t

C7_Witness ==
  /\ SplitDone
  /\ pipeline = "seg"
  /\ Cardinality(Corpus) >= 11
  /\ Cardinality(valid_ids) >= 2

\* C8: the split is a function of the set of images: whatever the order in
\* which the platform lists the image files, create_dataset_yaml puts the
\* same images into the train subset.
C8_SplitIndependentOfEnumeration ==
  [][(pipeline = "obb" /\ pc = "exports" /\ pc' = "split") =>
       \A all_images \in Enumerations(AllImages) :
         ObbSplit(all_images).train = train_ids']_vars

\* C9: every coordinate of every label line written by a converter lies
\* in [0, 1].
C9_WrittenCoordinatesInUnit ==
  \A k \in DOMAIN out_labels :
    \A i \in 1..Len(out_labels[k]) :
      \A j \in 1..Len(out_labels[k][i].coords) : InUnit(out_labels[k][i].coords[j])

\* The instances of the last item whose fitted rectangle lies in the image.
InRangeFits ==
  {i \in 1..Len(last_in.fits) :
     /\ last_in.fits[i] # NoFit
     /\ \A j \in 1..Len(last_in.fits[i]) : InUnit(last_in.fits[i][j])}

\* C10: in OBB conversion an instance whose fitted rectangle has a corner
\* coordinate outside [0, 1] gets no label line and is not counted; the
\* instances of the same image that lie in range are each written and counted.
C10_OutOfRangeInstanceDiscarded ==
  (pipeline = "obb" /\ last_in.kind = "item") =>
    /\ \A l \in 1..Len(last_in.lines) :
         \A j \in 1..Len(last_in.lines[l].coords) : InUnit(last_in.lines[l].coords[j])
    /\ Len(last_in.lines) = Cardinality(InRangeFits)
    /\ \A i \in InRangeFits :
         \E l \in 1..Len(last_in.lines) : last_in.lines[l].coords = last_in.fits[i]
    /\ total_annotations = last_in.before + Cardinality(InRangeFits)
    /\ last_in.lines # <<>> =>
         /\ <<"labels", last_in.label>> \in DOMAIN out_labels
         /\ out_labels[<<"labels", last_in.label>>] = last_in.lines

C10_Witness ==
  /\ pipeline = "obb"
  /\ last_in.kind = "item"
  /\ \E i \in 1..Len(last_in.fits) :
       /\ last_in.fits[i] # NoFit
       /\ i \notin InRangeFits
  /\ InRangeFits # {}

\* C11: a polygon of fewer than three points never produces a label line:
\* every label line written holds the coordinates of at least three points.
C11_ShortPolygonNeverWritten ==
  \A k \in DOMAIN out_labels :
    \A i \in 1..Len(out_labels[k]) : Len(out_labels[k][i].coords) >= 6

\* C12: an image whose file was resolved (found and decoded) is emitted with
\* a label file even when no instance of it is retained: the label file then
\* exists and is empty.
C12_ResolvedImageHasLabelFile ==
  (pipeline = "obb" /\ last_in.kind = "item" /\ last_in.readable) =>
    /\ last_in.label # <<>>
    /\ <<"labels", last_in.label>> \in DOMAIN out_labels
    /\ out_labels[<<"labels", last_in.label>>] = last_in.lines

\* C13: an archive that cannot be opened is skipped and the run goes on with
\* the other archives: the run never ends at the corrupt archive.
C13_CorruptArchiveSkipped == pc # "bad_zip"

\* A non-empty list of records each of which has a data key and an
\* annotations key.
RecognizedExport(file) ==
  /\ file.parses
  /\ file.is_list
  /\ Len(file.records) > 0
  /\ \A i \in 1..Len(file.records) :
       /\ file.records[i].is_dict
       /\ {"data", "annotations"} \subseteq file.records[i].keys

\* C14: find_labelstudio_json returns a JSON file if and only if it is a
\* non-empty list of records that each hold both a data and an annotations
\* key: its list is the recognized files among the scanned ones, in order.
C14_ReturnsExactlyRecognizedExports ==
  json_files = SelectSeq(scanned, RecognizedExport)

\* C15: when no recognized export is found the OBB main stops there, and the
\* output directory then holds no label file, no image file, no split
\* directory and no manifest, the extracted archives' files included.
C15_NoExportsWritesNothing ==
  (pipeline = "obb" /\ pc = "no_exports") =>
    /\ out_images = <<>>
    /\ out_labels = <<>>
    /\ ~manifest
    /\ work_dir # "extracted"

\* C16: the OBB run ends with a non-zero exit status when the input
\* directory is absent or no recognized export is found, and with status
\* zero when the conversion completed.
C16_FailureExitStatus ==
  pipeline = "obb" =>
    /\ pc \in {"no_input_dir", "no_exports"} => ExitStatus # 0
    /\ pc = "done" => ExitStatus = 0

\* C19: when no image was accepted the run ends in failure, and neither a
\* split directory nor a manifest is written.
C19_EmptyCorpusIsFatal ==
  (pipeline = "obb" /\ pc = "done" /\ total_images = 0) =>
    /\ ExitStatus # 0
    /\ ~manifest
    /\ \A k \in DOMAIN out_images : k[1] \notin {"train", "val"}

\* C20: with the input directory missing nothing is processed: the working
\* and output directories are neither removed nor made, and no archive is
\* extracted.
C20_MissingInputTouchesNothing ==
  ~input_exists =>
    /\ work_dir = "old"
    /\ out_dir = "old"
    /\ zip_idx = 0
    /\ json_idx = 0

\* The step read an image record whose file is not found.
ImageNotFoundStep ==
  \/ /\ pipeline = "obb"
     /\ n_items' = n_items + 1
     /\ last_in'.kind = "item"
     /\ last_in'.has_ref
     /\ ~last_in'.found
  \/ /\ pipeline = "seg"
     /\ n_recs' = n_recs + 1
     /\ last_in'.kind = "image"
     /\ ~last_in'.added

\* C17: an image whose file is not found is skipped and the run goes on, and
\* the summary of the run counts it: it has a count of skipped images, which
\* such a step raises by one.
C17_SkippedImagesCounted ==
  [][ImageNotFoundStep =>
       /\ pc' = pc
       /\ "skipped" \in DOMAIN RunSummary
       /\ "skipped" \in DOMAIN RunSummary'
       /\ RunSummary'.skipped = RunSummary.skipped + 1]_vars

\* C18: no malformed record aborts the batch: the COCO converter never ends
\* on an exception raised by a record.
C18_NoItemAbortsBatch == pipeline = "coco" => pc # "failed"

\* C21: a second run of the COCO converter on the same input ends with the
\* output tree the first run left: the same image and label files in the same
\* splits, the same label contents, the same manifest.
C21_SecondRunReproducesTree ==
  (pipeline = "coco" /\ run = 2 /\ pc \in {"done", "failed"}) =>
    OutputTree = first_out

C21_Witness ==
  /\ pipeline = "coco"
  /\ run = 2
  /\ pc = "done"
  /\ \E k \in DOMAIN out_labels : Len(out_labels[k]) > 0
  /\ OutputTree = first_out

(***************************************************************************)
(* Properties of polygon_to_obb.                                           *)
(***************************************************************************)
Lcm(a, b) == (a * b) \div Gcd(a, b)

RECURSIVE LcmAll(_, _)
LcmAll(ds, i) == IF i > Len(ds) THEN 1 ELSE Lcm(ds[i], LcmAll(ds, i + 1))

\* The corners of box in pixels (x times the width, y times the height) and
\* the polygon's vertices in pixels, all as integers over one denominator.
PixelCorners(box, w, h) ==
  [i \in 1..4 |-> <<Ratio(box[2 * i - 1][1] * w, box[2 * i - 1][2]),
                    Ratio(box[2 * i][1] * h, box[2 * i][2])>>]

CommonDen(corners) ==
  LcmAll([i \in 1..8 |-> corners[(i + 1) \div 2][2 - (i % 2)][2]] \o <<100>>, 1)

Scaled(c, D) == <<c[1][1] * (D \div c[1][2]), c[2][1] * (D \div c[2][2])>>

\* v is in the rectangle with corners cs (in order): it is on the same side
\* of, or on, each of the four sides.
InRectangle(v, cs) ==
  LET side(i) == Cross(cs[i], cs[(i % 4) + 1], v)
  IN  \/ \A i \in 1..4 : side(i) >= 0
      \/ \A i \in 1..4 : side(i) <= 0

VerticesInBox(points, box, w, h) ==
  LET corners == PixelCorners(box, w, h)
      D == CommonDen(corners)
      cs == [i \in 1..4 |-> Scaled(corners[i], D)]
  IN  \A k \in 1..Len(points) :
        InRectangle(Scaled(<<<<points[k][1] * w, 100>>, <<points[k][2] * h, 100>>>>, D),
                    cs)

\* C22: every vertex of a convex polygon of at least 3 points lies inside or
\* on the boundary of the rectangle whose corners polygon_to_obb returns, the
\* corners taken back to pixels by the image width and height.
C22_VerticesInsideRectangle ==
  (pc = "polygon_done" /\ last_in.kind = "polygon") =>
    VerticesInBox(last_in.points, last_in.box, last_in.img_width, last_in.img_height)

\* A quadrilateral whose rectangle is not parallel to the axes.
C22_Witness ==
  /\ pc = "polygon_done"
  /\ last_in.kind = "polygon"
  /\ Len(last_in.points) = 4
  /\ last_in.box[1] # last_in.box[3]
  /\ last_in.box[2] # last_in.box[4]
  /\ VerticesInBox(last_in.points, last_in.box, last_in.img_width, last_in.img_height)

(***************************************************************************)
(* Properties of the image resolution of convert_labelstudio_to_yolo_obb.  *)
(***************************************************************************)
Resolved == pc = "resolved" /\ last_in.kind = "resolve"

\* The positions, in the list of candidate directories, of the directories
\* that hold the exact name, and of those that hold the stem with an accepted
\* extension.
ExactAt ==
  {i \in 1..3 : last_in.img_filename \in last_in.t[SearchDirs(last_in.images_dir)[i]]}

ExtAt ==
  {i \in 1..3 : \E j \in 1..Len(ObbExts) :
     PathStem(last_in.img_filename) \o ObbExts[j]
       \in last_in.t[SearchDirs(last_in.images_dir)[i]]}

\* C23: first match wins: when no candidate directory holds the exact name
\* and some hold the stem with an accepted extension, the resolved path is in
\* the earliest such directory of the list, with the earliest such extension.
C23_EarliestDirectoryWins ==
  (Resolved /\ ExactAt = {} /\ ExtAt # {}) =>
    LET dirs == SearchDirs(last_in.images_dir)
        first == CHOOSE i \in ExtAt : \A j \in ExtAt : i <= j
    IN  last_in.img_source =
          <<dirs[first], ExtMatch(last_in.t[dirs[first]], PathStem(last_in.img_filename), 1)>>

\* C24: the fallbacks apply in the order exact name, extension swap,
\* recursive search: with the exact name in a candidate directory the result
\* is that name in a candidate directory that holds it; otherwise, with an
\* extension match in a candidate directory, the result is the stem with an
\* accepted extension in a candidate directory that holds it; only with
\* neither is the result one of the recursive search (or nothing).
C24_FallbackOrder ==
  Resolved =>
    LET dirs == SearchDirs(last_in.images_dir)
        src == last_in.img_source
        InCandidate == /\ src # NoSource
                       /\ \E i \in 1..3 : dirs[i] = src[1]
                       /\ src[2] \in last_in.t[src[1]]
    IN  /\ ExactAt # {} => InCandidate /\ src[2] = last_in.img_filename
        /\ (ExactAt = {} /\ ExtAt # {}) =>
             /\ InCandidate
             /\ \E j \in 1..Len(ObbExts) :
                  src[2] = PathStem(last_in.img_filename) \o ObbExts[j]
        /\ (ExactAt = {} /\ ExtAt = {}) =>
             \/ src \in RglobMatches(last_in.t, last_in.img_filename)
             \/ src = NoSource /\ RglobMatches(last_in.t, last_in.img_filename) = {}

\* An exact name found after an earlier directory's extension match, and a
\* file only the recursive search finds.
C24_Witness ==
  /\ Resolved
  /\ \/ /\ ExactAt # {}
        /\ \E i \in ExtAt : i \notin ExactAt /\ \A j \in ExactAt : i < j
        /\ last_in.img_source[2] = last_in.img_filename
     \/ /\ ExactAt = {} /\ ExtAt = {}
        /\ last_in.img_source # NoSource
        /\ last_in.img_source[1] = "nested"

(***************************************************************************)
(* More properties of extract_and_combine_coco.                            *)
(***************************************************************************)
\* The merged images that come from the project being processed.
PlacedOfProject == {i \in ImgIdx : img_origin[i].project = zip_idx}

\* C25: the number of images a project is reported to have added is the
\* number of its images placed in the merged corpus; a record whose file was
\* not found is not counted.  (The images of a project are all read when its
\* annotations are.)
C25_ReportedAddedIsPlaced ==
  (pipeline = "seg" /\ pc = "annotations") =>
    ProjectReport.images = Cardinality(PlacedOfProject)

\* C26: an annotation of the merged corpus carries the identifier of the
\* merged image made from its own image record: when an annotation is added,
\* its source image_id is one whose record was resolved, and its new image_id
\* is that of an image of the same project; in the finished corpus every
\* annotation's image_id is carried by an image.
C26_AnnotationOnOwnImage ==
  /\ (pipeline = "seg" /\ last_in.kind = "annotation" /\ last_in.added) =>
       LET ann == combined_annotations[Len(combined_annotations)]
       IN  /\ last_in.image_id \notin unresolved
           /\ \E i \in PlacedOfProject : combined_images[i].id = ann.image_id
  /\ (pipeline = "seg" /\ pc = "merged") =>
       \A k \in 1..Len(combined_annotations) :
         \E i \in ImgIdx : combined_images[i].id = combined_annotations[k].image_id

\* The step reads an archive that opens and has no result.json or no images
\* folder.
SkippedProjectStep ==
  /\ pipeline = "seg"
  /\ zip_idx' = zip_idx + 1
  /\ last_in'.kind = "project"
  /\ ~last_in'.corrupt
  /\ ~last_in'.has_result \/ ~last_in'.has_images_dir

\* C29: a project skipped for want of result.json or of an images folder
\* leaves the merged image list, the merged annotation list and the two
\* identifier counters as they were, and the loop goes on to the next archive.
C29_SkippedProjectChangesNothing ==
  [][SkippedProjectStep =>
       /\ combined_images' = combined_images
       /\ combined_annotations' = combined_annotations
       /\ next_image_id' = next_image_id
       /\ next_annotation_id' = next_annotation_id
       /\ pc' = "merge"]_vars

\* The first project was skipped for want of an images folder and the second
\* has added an image.
C29_Witness ==
  /\ pipeline = "seg"
  /\ pc \in {"images", "annotations"}
  /\ zip_idx = 2
  /\ extracted[1] = {}
  /\ \E i \in ImgIdx : img_origin[i].project = 2

(***************************************************************************)
(* More properties of convert_to_yolov8_seg.                               *)
(***************************************************************************)
\* C27: the file copied for a merged image is a file of the project the
\* image comes from: the image named projNN_<name> never receives a file of
\* another project.
C27_CopiedFromOwnProject ==
  pipeline = "seg" =>
    \A i \in ImgIdx, key \in DOMAIN out_images :
      key[2] = combined_images[i].file_name =>
        out_images[key][1] = img_origin[i].project

(***************************************************************************)
(* More properties of convert_coco_to_yolov8seg.                           *)
(***************************************************************************)
\* C28: the class index at the start of a label line is the zero-based
\* position, in the names table of the manifest, of the name of the line's
\* category.
C28_ClassIndexMatchesNamesTable ==
  (pipeline = "coco" /\ pc = "done" /\ manifest) =>
    \A k \in DOMAIN out_labels :
      \A i \in 1..Len(out_labels[k]) :
        LET line == out_labels[k][i]
        IN  /\ line.class + 1 \in DOMAIN CocoNames(categories)
            /\ CocoNames(categories)[line.class + 1] = line.category_id

\* The converted images whose number among the converted ones (from 0) is
\* in j..j+9 and that are under split.
InWindow(j, split) ==
  {key \in DOMAIN out_images :
     key[1] = split /\ out_images[key].k \in j..(j + 9)}

\* C30: a converted image and its label file are in exactly one of train,
\* valid and test, the one given by k mod 10 for the number k of images
\* converted before it; skipped images do not advance k (the numbers of the
\* converted images are 0, 1, ... without a gap), and of any 10 images
\* converted in a row 8 are in train, 1 in valid and 1 in test.
C30_SplitByConvertedCount ==
  pipeline = "coco" =>
    /\ \A key \in DOMAIN out_images :
         LET k == out_images[key].k
             label == PathStem(key[2]) \o DotTxt
         IN  /\ key[1] = IF k % 10 < 8 THEN "train"
                         ELSE IF k % 10 = 8 THEN "valid" ELSE "test"
             /\ \A other \in DOMAIN out_images : other[2] = key[2] => other = key
             /\ <<key[1], label>> \in DOMAIN out_labels
             /\ \A other \in DOMAIN out_labels : other[2] = label => other[1] = key[1]
    /\ {out_images[key].k : key \in DOMAIN out_images} = 0..(converted_count - 1)
    /\ Cardinality(DOMAIN out_images) = converted_count
    /\ \A j \in 0..(converted_count - 10) :
         /\ Cardinality(InWindow(j, "train")) = 8
         /\ Cardinality(InWindow(j, "valid")) = 1
         /\ Cardinality(InWindow(j, "test")) = 1

\* Ten images converted, and at least one skipped before the tenth.
C30_Witness ==
  /\ pipeline = "coco"
  /\ converted_count >= 10
  /\ skipped_count > 0
  /\ \E key \in DOMAIN out_images : key[1] = "test" /\ key[2] # CorpusName(10)

=============================================================================
